---- MODULE Spec2Model ----
(***************************************************************************)
(* Verification model of the market-data repository:                       *)
(*   - the durable schema (companies, quotes, latest_quotes,               *)
(*     portfolio_view, get_top_performers) of database_migration.sql;      *)
(*   - the useQuotes polling hook, Main and StockCard of the frontend;     *)
(*   - the push-channel client (socket.onmessage);                         *)
(*   - the Refresh Scheduler and Broadcast Hub, whose code is not part of  *)
(*     the sources and which are modelled from the design document.        *)
(* Each part has its own specification (SpecDB, SpecHook, SpecSched,       *)
(* SpecHub); the variables of the other parts stay at their initial value. *)
(***************************************************************************)
EXTENDS Integers, Sequences, FiniteSets, TLC

VARIABLES
    \* ---- database_migration.sql
    companies,      \* table companies: set of rows [symbol, marketcap]
    quotes,         \* table quotes: set of rows [id, symbol, current_price, percent_change, timestamp]
    nextId,         \* the SERIAL sequence behind quotes.id
    appended,       \* history: the ids of the rows INSERT INTO quotes has stored
    \* ---- useQuotes (frontend/src/hooks/useQuote.ts)
    mounted,        \* "no" before the hook mounts, "yes" while mounted, "gone" after unmount
    tickers,        \* the tickers argument of the latest render
    uiQuotes,       \* useState quotes
    loading,        \* useState loading
    error,          \* useState error
    timers,         \* the active setInterval timers: [tickers (the closure's list), due]
    now,            \* the clock, in milliseconds
    inflight,       \* axios requests awaiting their response
    nextReq,        \* number of the next request
    changes,        \* how often the ticker list has changed
    effectStart,    \* history: when the current effect ran
    callsThisEffect,\* history: fetchQuotes calls of the current effect and its timer
    applied,        \* history: number of the request whose response is in uiQuotes
    latestOk,       \* history: highest number of a request answered successfully
    lastEvent,      \* history: the step just taken, its request and the state before it
    \* ---- Refresh Scheduler (design document, section 4.3)
    schedState,     \* per symbol set: "Idle", "Fetching", "Committing" or "Backoff"
    awaiting,       \* per symbol set: triggers awaiting the in-flight result
    upstreamInFlight, \* per symbol set: calls to the Upstream Fetcher not yet returned
    cycleCalls,     \* per symbol set: calls to the Upstream Fetcher since the set left Idle
    triggers,       \* per symbol set: refresh triggers received
    \* ---- Broadcast Hub (section 4.4) and the push-channel client
    tickNo,         \* number of tick results the Hub has received
    published,      \* history: the tick events for the watched symbol, in the order received
    hubCache,       \* the latest sample the Hub has seen for the watched symbol
    subscribed,     \* "no", "open" or "closed": the subscriber's connection
    channel,        \* the subscriber's bounded queue of encoded events
    socketLog       \* what socket.onmessage has logged, in order

dbVars == <<companies, quotes, nextId, appended>>
hookVars == <<mounted, tickers, uiQuotes, loading, error, timers, now, inflight,
              nextReq, changes, effectStart, callsThisEffect, applied, latestOk, lastEvent>>

schedVars == <<schedState, awaiting, upstreamInFlight, cycleCalls, triggers>>
hubVars == <<tickNo, published, hubCache, subscribed, channel, socketLog>>

vars == <<dbVars, hookVars, schedVars, hubVars>>

\* ------------------------------------------------------------------------
\* Bounds and value domains of the model
\* ------------------------------------------------------------------------

\* INSERTs into quotes attempted in one behaviour
MaxQuotes == 3

Symbols == {"AAPL", "MSFT"}
MarketCaps == {1, 2}
Timestamps == {1, 2}
PercentChanges == {1, 2}
Prices == {100}

\* A nullable SQL column holds the empty set (NULL) or a singleton {v}.
Null == {}
Val(v) == {v}
IsNull(x) == x = {}
TheVal(x) == CHOOSE v \in x : TRUE
Nullable(S) == {Null} \cup {Val(v) : v \in S}

Min(a, b) == IF a <= b THEN a ELSE b

\* All orderings of a finite set, as sequences without repetition.
Perms(S) ==
    {p \in [1..Cardinality(S) -> S] :
        \A i, j \in 1..Cardinality(S) : i # j => p[i] # p[j]}

\* ------------------------------------------------------------------------
\* Tables
\* ------------------------------------------------------------------------

CompanySymbols == {c.symbol : c \in companies}

\* INSERT INTO companies: symbol is the PRIMARY KEY, marketcap is nullable.
InsertCompany(s, mc) ==
    /\ s \notin CompanySymbols
    /\ companies' = companies \cup {[symbol |-> s, marketcap |-> mc]}
    /\ UNCHANGED <<quotes, nextId, appended>>
    /\ UNCHANGED <<hookVars, schedVars, hubVars>>

\* UPDATE companies SET marketcap = mc WHERE symbol = s
UpdateCompany(s, mc) ==
    /\ s \in CompanySymbols
    /\ companies' = {IF c.symbol = s THEN [c EXCEPT !.marketcap = mc] ELSE c : c \in companies}
    /\ companies' # companies
    /\ UNCHANGED <<quotes, nextId, appended>>
    /\ UNCHANGED <<hookVars, schedVars, hubVars>>

\* UPDATE companies SET symbol = t WHERE symbol = s. quotes.symbol REFERENCES
\* companies(symbol) without ON UPDATE, so a referenced symbol cannot change.
RenameCompany(s, t) ==
    /\ s \in CompanySymbols
    /\ t \notin CompanySymbols
    /\ ~\E q \in quotes : q.symbol = s
    /\ companies' = {IF c.symbol = s THEN [c EXCEPT !.symbol = t] ELSE c : c \in companies}
    /\ UNCHANGED <<quotes, nextId, appended>>
    /\ UNCHANGED <<hookVars, schedVars, hubVars>>

\* A cascade that removes every quote row, whatever its symbol.
DeleteCompanyAllQuotes(s) ==
    /\ s \in CompanySymbols
    /\ companies' = {c \in companies : c.symbol # s}
    /\ quotes' = {}
    /\ UNCHANGED <<nextId, appended>>
    /\ UNCHANGED <<hookVars, schedVars, hubVars>>

\* DELETE FROM companies WHERE symbol = s; quotes.symbol is ON DELETE CASCADE.
DeleteCompany(s) ==
    /\ s \in CompanySymbols
    /\ companies' = {c \in companies : c.symbol # s}
    /\ quotes' = {q \in quotes : q.symbol # s}
    /\ UNCHANGED <<nextId, appended>>
    /\ UNCHANGED <<hookVars, schedVars, hubVars>>

\* INSERT INTO quotes (symbol, current_price, percent_change, timestamp):
\* id comes from the SERIAL sequence; symbol must reference a company.
\* The sequence value is consumed also when the foreign key rejects the row.
AppendQuote(s, price, pc, ts) ==
    /\ nextId <= MaxQuotes
    /\ nextId' = nextId + 1
    /\ LET row == [id |-> nextId, symbol |-> s, current_price |-> price,
                   percent_change |-> pc, timestamp |-> ts]
       IN  IF s \in CompanySymbols
           THEN /\ quotes' = quotes \cup {row}
                /\ appended' = appended \cup {row.id}
           ELSE UNCHANGED <<quotes, appended>>
    /\ UNCHANGED companies
    /\ UNCHANGED <<hookVars, schedVars, hubVars>>

\* ------------------------------------------------------------------------
\* Views and helper function
\* ------------------------------------------------------------------------

QuoteRows(s) == {q \in quotes : q.symbol = s}
QuotedSymbols == {q.symbol : q \in quotes}

\* The columns latest_quotes selects (id is not among them).
LatestColumns(q) ==
    [symbol |-> q.symbol, current_price |-> q.current_price,
     percent_change |-> q.percent_change, timestamp |-> q.timestamp]

\* SELECT DISTINCT ON (symbol) ... ORDER BY symbol, timestamp DESC keeps the
\* first row of each symbol group. Rows of a symbol with equal timestamps
\* are in no defined order, so any of them may be the first.
FirstRowCandidates(s) ==
    {q \in QuoteRows(s) : \A r \in QuoteRows(s) : r.timestamp <= q.timestamp}

\* Every result the view latest_quotes can return: symbol -> selected row.
latest_quotes ==
    {[s \in QuotedSymbols |-> LatestColumns(f[s])] :
        f \in {g \in [QuotedSymbols -> quotes] :
                  \A s \in QuotedSymbols : g[s] \in FirstRowCandidates(s)}}

\* ORDER BY x DESC in PostgreSQL is NULLS FIRST: a goes strictly before b.
DescBefore(a, b) ==
    \/ IsNull(a) /\ ~IsNull(b)
    \/ ~IsNull(a) /\ ~IsNull(b) /\ TheVal(a) > TheVal(b)

\* One row of portfolio_view: companies c LEFT JOIN latest_quotes lq.
PortfolioRow(c, lq) ==
    IF c.symbol \in DOMAIN lq
    THEN [symbol |-> c.symbol, marketcap |-> c.marketcap,
          current_price |-> Val(lq[c.symbol].current_price),
          percent_change |-> lq[c.symbol].percent_change,
          last_update |-> Val(lq[c.symbol].timestamp)]
    ELSE [symbol |-> c.symbol, marketcap |-> c.marketcap,
          current_price |-> Null, percent_change |-> Null, last_update |-> Null]

\* Every result portfolio_view can return, as a sequence of rows.
portfolio_view ==
    UNION {
        {p \in Perms({PortfolioRow(c, lq) : c \in companies}) :
            \A i, j \in 1..Len(p) : i < j => ~DescBefore(p[j].marketcap, p[i].marketcap)}
        : lq \in latest_quotes}

\* limit_count INTEGER DEFAULT 5
DefaultLimit == 5

\* Rows of companies c INNER JOIN latest_quotes lq WHERE lq.percent_change IS NOT NULL
PerformerRows(lq) ==
    {[symbol |-> c.symbol, current_price |-> lq[c.symbol].current_price,
      percent_change |-> lq[c.symbol].percent_change] :
        c \in {d \in companies : d.symbol \in DOMAIN lq
                                 /\ ~IsNull(lq[d.symbol].percent_change)}}

\* Every result get_top_performers(limit_count) can return (limit_count >= 0):
\* the first limit_count rows of an ordering by percent_change DESC.
get_top_performers(limit_count) ==
    UNION {
        {SubSeq(p, 1, Min(limit_count, Len(p))) :
            p \in {o \in Perms(PerformerRows(lq)) :
                     \A i, j \in 1..Len(o) :
                        i < j => ~DescBefore(o[j].percent_change, o[i].percent_change)}}
        : lq \in latest_quotes}

\* ------------------------------------------------------------------------
\* Specification of the store
\* ------------------------------------------------------------------------

InitDB ==
    /\ companies = {}
    /\ quotes = {}
    /\ nextId = 1
    /\ appended = {}

NextDB ==
    \/ \E s \in Symbols, mc \in Nullable(MarketCaps) : InsertCompany(s, mc)
    \/ \E s \in Symbols, mc \in Nullable(MarketCaps) : UpdateCompany(s, mc)
    \/ \E s \in Symbols, t \in Symbols : RenameCompany(s, t)
    \/ \E s \in Symbols : DeleteCompany(s)
    \/ \E s \in Symbols, price \in Prices, pc \in Nullable(PercentChanges),
          ts \in Timestamps : AppendQuote(s, price, pc, ts)

\* ------------------------------------------------------------------------
\* Claims about the store
\* ------------------------------------------------------------------------

\* The row of symbol s with the maximum timestamp and, among the rows that
\* share it, the highest sequence id.
MaxTimestampHighestId(s) ==
    CHOOSE q \in QuoteRows(s) :
        \A r \in QuoteRows(s) :
            \/ r.timestamp < q.timestamp
            \/ r.timestamp = q.timestamp /\ r.id <= q.id

\* C1: for every symbol, whatever rows were appended for it, latest_quotes
\* returns the row with the maximum timestamp, and among rows sharing that
\* timestamp the one with the highest sequence id.
C1_LatestIsMaxTimestampHighestId ==
    \A lq \in latest_quotes :
        \A s \in QuotedSymbols :
            lq[s] = LatestColumns(MaxTimestampHighestId(s))

\* C2 as stated: every row once appended to quotes is still present with
\* unchanged field values, whatever operations on companies and quotes ran.
C2_AppendedRowsStay == \A id \in appended : \E q \in quotes : q.id = id

\* C2 amended: a step never changes a stored row, and a row leaves quotes
\* only in the step that deletes its company (ON DELETE CASCADE); inserting
\* or updating a company, appending a quote and deleting another company
\* leave it in place.
C2_RowsLeaveOnlyWithTheirCompany ==
    [][/\ \A q \in quotes :
            \/ q \in quotes'
            \/ q.symbol \in CompanySymbols /\ q.symbol \notin CompanySymbols'
       /\ \A q \in quotes : \A r \in quotes' : r.id = q.id => r = q]_vars

\* A company with quote rows was deleted, and a row stored before one of
\* the removed rows is still in the table.
C2_Witness ==
    \E id \in appended :
        /\ ~\E q \in quotes : q.id = id
        /\ \E q \in quotes : q.id < id

\* C3: portfolio_view has exactly one row per company, companies without
\* quote rows included with null quote fields, each row carries the latest
\* quote of its company, and no row is preceded by a row whose market
\* capitalization is smaller or missing.
C3_PortfolioOnePerCompanyByMarketcap ==
    \A pv \in portfolio_view :
        /\ Len(pv) = Cardinality(companies)
        /\ {pv[i].symbol : i \in 1..Len(pv)} = CompanySymbols
        /\ \A i \in 1..Len(pv) :
              /\ \E c \in companies : c.symbol = pv[i].symbol /\ c.marketcap = pv[i].marketcap
              /\ IF QuoteRows(pv[i].symbol) = {}
                 THEN /\ IsNull(pv[i].current_price)
                      /\ IsNull(pv[i].percent_change)
                      /\ IsNull(pv[i].last_update)
                 ELSE LET q == MaxTimestampHighestId(pv[i].symbol)
                      IN  /\ pv[i].current_price = Val(q.current_price)
                          /\ pv[i].percent_change = q.percent_change
                          /\ pv[i].last_update = Val(q.timestamp)
        /\ \A i, j \in 1..Len(pv) :
              i < j => /\ ~(IsNull(pv[i].marketcap) /\ ~IsNull(pv[j].marketcap))
                       /\ ~(/\ ~IsNull(pv[i].marketcap)
                            /\ ~IsNull(pv[j].marketcap)
                            /\ TheVal(pv[i].marketcap) < TheVal(pv[j].marketcap))

\* Companies whose latest quote has a non-null percent_change.
WithLatestPercentChange ==
    {c.symbol : c \in {d \in companies :
        /\ QuoteRows(d.symbol) # {}
        /\ ~IsNull(MaxTimestampHighestId(d.symbol).percent_change)}}

\* The limits the claims are checked for.
Limits == 0..(Cardinality(Symbols) + 1) \cup {DefaultLimit}

\* C4: get_top_performers(n) returns min(n, k) rows, k the number of
\* companies whose latest quote has a non-null percent_change, in
\* non-increasing percent_change order, each symbol at most once, and no
\* excluded symbol has a latest percent_change above a returned one.
C4_TopPerformers ==
    \A n \in Limits :
        \A tp \in get_top_performers(n) :
            /\ Len(tp) = Min(n, Cardinality(WithLatestPercentChange))
            /\ \A i, j \in 1..Len(tp) :
                  /\ i < j => TheVal(tp[i].percent_change) >= TheVal(tp[j].percent_change)
                  /\ i # j => tp[i].symbol # tp[j].symbol
            /\ \A i \in 1..Len(tp) :
                  /\ tp[i].symbol \in WithLatestPercentChange
                  /\ tp[i].percent_change = MaxTimestampHighestId(tp[i].symbol).percent_change
            /\ \A s \in WithLatestPercentChange \ {tp[i].symbol : i \in 1..Len(tp)} :
                  \A i \in 1..Len(tp) :
                      TheVal(MaxTimestampHighestId(s).percent_change)
                          <= TheVal(tp[i].percent_change)

\* ========================================================================
\* useQuotes, Main and StockCard
\* ========================================================================

\* Half-intervals the clock may advance in one behaviour
MaxTicks == 2
\* Changes of the ticker list in one behaviour
MaxChanges == 1

\* const pollingInterval = 10000; // 10 seconds
pollingInterval == 10000
ClockStep == pollingInterval \div 2

\* Strings that are joined and split are sequences of characters.
AAPL == <<"A", "A", "P", "L">>
ZZZZ == <<"Z", "Z", "Z", "Z">>
\* The ticker lists a render may pass to the hook.
TickerLists == {<< >>, <<AAPL>>, <<AAPL, ZZZZ>>}
LivePrices == {190}
FetchErrors == {"NotFound"}

\* Array.prototype.join(sep)
RECURSIVE join(_, _)
join(list, sep) ==
    IF Len(list) = 0 THEN << >>
    ELSE IF Len(list) = 1 THEN list[1]
    ELSE list[1] \o sep \o join(Tail(list), sep)

\* `/api/markets/live-prices?tickers=${tickers.join(',')}`
Url(list) == [path |-> "/api/markets/live-prices", tickers |-> join(list, <<",">>)]

\* JavaScript truthiness of an optional string: undefined, null and "" are falsy.
Truthy(x) == ~IsNull(x) /\ TheVal(x) # ""

\* setError("Failed to retrieve stock data from the server.")
FailureMessage == "Failed to retrieve stock data from the server."

NoReq == [id |-> 0, url |-> Url(<< >>), tickers |-> << >>]
Snapshot == [quotes |-> uiQuotes, loading |-> loading, error |-> error]
Event(kind, req) == [kind |-> kind, req |-> req, before |-> Snapshot]

\* ---- the backend's read API, modelled from the design document ----------

\* The tickers of a request: the query value split at the commas.
RECURSIVE split(_, _)
split(str, acc) ==
    IF Len(str) = 0 THEN <<acc>>
    ELSE IF Head(str) = "," THEN <<acc>> \o split(Tail(str), << >>)
    ELSE split(Tail(str), Append(acc, Head(str)))

\* What the pipeline knows of a symbol when the request is served.
Outcomes ==
    [price : {Val(p) : p \in LivePrices}, error : {Null}]
        \cup [price : {Null}, error : {Val(e) : e \in FetchErrors}]

\* The entry of one ticker: a price, or an error string instead of a price.
LivePriceEntry(symbol, outcome) ==
    [symbol |-> symbol, price |-> outcome.price, error |-> outcome.error]

\* GET /api/markets/live-prices?tickers=A,B,C: one entry per requested
\* ticker, in request order; up gives each symbol's outcome.
LivePricesResponse(url, up) ==
    LET asked == split(url.tickers, << >>)
    IN  [i \in 1..Len(asked) |-> LivePriceEntry(asked[i], up[asked[i]])]

RequestedSymbols(url) == {split(url.tickers, << >>)[i] : i \in 1..Len(split(url.tickers, << >>))}

\* ---- fetchQuotes ---------------------------------------------------------

\* fetchQuotes of the render whose tickers are list, up to its await: with
\* no tickers it clears loading and returns; otherwise it sets loading,
\* clears error and sends the request.
fetchQuotes(list) ==
    IF Len(list) = 0
    THEN /\ loading' = FALSE
         /\ UNCHANGED <<error, inflight, nextReq>>
    ELSE /\ loading' = TRUE
         /\ error' = Null
         /\ inflight' = inflight \cup {[id |-> nextReq, url |-> Url(list), tickers |-> list]}
         /\ nextReq' = nextReq + 1

\* The request a call of fetchQuotes(list) sends, if any.
RequestOf(list) ==
    IF Len(list) = 0 THEN NoReq ELSE [id |-> nextReq, url |-> Url(list), tickers |-> list]

\* The effect body: fetchQuotes(), then setInterval(fetchQuotes, pollingInterval).
RunEffect(list, kind) ==
    /\ fetchQuotes(list)
    /\ timers' = (IF kind = "mount" THEN timers ELSE {})
                    \cup {[tickers |-> list, due |-> now + pollingInterval]}
    /\ effectStart' = now
    /\ callsThisEffect' = 1
    /\ lastEvent' = Event(kind, RequestOf(list))

\* First render and first run of the effect.
Mount(list) ==
    /\ mounted = "no"
    /\ mounted' = "yes"
    /\ tickers' = list
    /\ RunEffect(list, "mount")
    /\ UNCHANGED <<uiQuotes, now, changes, applied, latestOk>>
    /\ UNCHANGED <<dbVars, schedVars, hubVars>>

\* <StrictMode> in a development build: right after mounting, the effect is
\* cleaned up and run again.
StrictModeRemount ==
    /\ mounted = "yes"
    /\ lastEvent.kind = "mount"
    /\ RunEffect(tickers, "remount")
    /\ UNCHANGED <<mounted, tickers, uiQuotes, now, changes, applied, latestOk>>
    /\ UNCHANGED <<dbVars, schedVars, hubVars>>

\* A render with another ticker list. The effect depends on
\* tickers.join(','): when that string changes, the cleanup of the previous
\* effect clears its interval and the effect runs again.
ChangeTickers(list) ==
    /\ mounted = "yes"
    /\ list # tickers
    /\ changes < MaxChanges
    /\ changes' = changes + 1
    /\ tickers' = list
    /\ IF join(list, <<",">>) # join(tickers, <<",">>)
       THEN RunEffect(list, "change")
       ELSE /\ lastEvent' = Event("render", NoReq)
            /\ UNCHANGED <<loading, error, inflight, nextReq, timers, effectStart,
                           callsThisEffect>>
    /\ UNCHANGED <<mounted, uiQuotes, now, applied, latestOk>>
    /\ UNCHANGED <<dbVars, schedVars, hubVars>>

\* The interval timer t fires: it calls the fetchQuotes it was created with.
TimerFires(t) ==
    /\ t \in timers
    /\ t.due = now
    /\ fetchQuotes(t.tickers)
    /\ timers' = (timers \ {t}) \cup {[t EXCEPT !.due = t.due + pollingInterval]}
    /\ callsThisEffect' = callsThisEffect + 1
    /\ lastEvent' = Event("timer", RequestOf(t.tickers))
    /\ UNCHANGED <<mounted, tickers, uiQuotes, now, changes, effectStart, applied, latestOk>>
    /\ UNCHANGED <<dbVars, schedVars, hubVars>>

\* Time passes; a timer that is due fires before the clock moves on.
Tick ==
    /\ mounted = "yes"
    /\ now < MaxTicks * ClockStep
    /\ \A t \in timers : t.due > now
    /\ now' = now + ClockStep
    /\ lastEvent' = Event("tick", NoReq)
    /\ UNCHANGED <<mounted, tickers, uiQuotes, loading, error, timers, inflight, nextReq,
                   changes, effectStart, callsThisEffect, applied, latestOk>>
    /\ UNCHANGED <<dbVars, schedVars, hubVars>>

\* An unmount whose cleanup leaves the interval running.
UnmountKeepsInterval ==
    /\ mounted = "yes"
    /\ mounted' = "gone"
    /\ lastEvent' = Event("unmount", NoReq)
    /\ UNCHANGED <<tickers, uiQuotes, loading, error, timers, now, inflight, nextReq,
                   changes, effectStart, callsThisEffect, applied, latestOk>>
    /\ UNCHANGED <<dbVars, schedVars, hubVars>>

\* The component unmounts: the cleanup clears the interval.
Unmount ==
    /\ mounted = "yes"
    /\ mounted' = "gone"
    /\ timers' = {}
    /\ lastEvent' = Event("unmount", NoReq)
    /\ UNCHANGED <<tickers, uiQuotes, loading, error, now, inflight, nextReq, changes,
                   effectStart, callsThisEffect, applied, latestOk>>
    /\ UNCHANGED <<dbVars, schedVars, hubVars>>

\* The response of request r arrives: setQuotes(response.data), then the
\* finally block's setLoading(false). State setters of an unmounted
\* component do nothing.
Resolve(r, up) ==
    /\ r \in inflight
    /\ inflight' = inflight \ {r}
    /\ LET data == LivePricesResponse(r.url, up)
       IN  /\ lastEvent' = Event("resolved", r)
           /\ IF mounted = "yes"
              THEN /\ uiQuotes' = data
                   /\ loading' = FALSE
                   /\ applied' = r.id
                   /\ latestOk' = IF r.id > latestOk THEN r.id ELSE latestOk
              ELSE UNCHANGED <<uiQuotes, loading, applied, latestOk>>
    /\ UNCHANGED <<mounted, tickers, error, timers, now, nextReq, changes, effectStart,
                   callsThisEffect>>
    /\ UNCHANGED <<dbVars, schedVars, hubVars>>

\* Request r fails as a whole: setError(FailureMessage), then setLoading(false).
Reject(r) ==
    /\ r \in inflight
    /\ inflight' = inflight \ {r}
    /\ lastEvent' = Event("rejected", r)
    /\ IF mounted = "yes"
       THEN /\ error' = Val(FailureMessage)
            /\ loading' = FALSE
       ELSE UNCHANGED <<error, loading>>
    /\ UNCHANGED <<mounted, tickers, uiQuotes, timers, now, nextReq, changes, effectStart,
                   callsThisEffect, applied, latestOk>>
    /\ UNCHANGED <<dbVars, schedVars, hubVars>>

\* ---- rendering -----------------------------------------------------------

\* A card that never takes the error branch.
StockCardPriceOnly(quote) ==
    [kind |-> "price", symbol |-> quote.symbol, text |-> quote.price]

\* StockCard: the error card when quote.error is truthy, else the price card
\* (the price, or '---' for null).
StockCard(quote) ==
    IF Truthy(quote.error)
    THEN [kind |-> "error", symbol |-> quote.symbol, text |-> quote.error]
    ELSE [kind |-> "price", symbol |-> quote.symbol, text |-> quote.price]

\* Main: the loading line, the error line, and the grid of cards, which is
\* rendered only when neither loading nor error is set.
Main ==
    [loadingLine |-> loading,
     errorLine |-> Truthy(error),
     grid |-> IF ~loading /\ ~Truthy(error)
              THEN [i \in 1..Len(uiQuotes) |-> StockCard(uiQuotes[i])]
              ELSE << >>]

InitHook ==
    /\ mounted = "no"
    /\ tickers = << >>
    /\ uiQuotes = << >>
    /\ loading = TRUE
    /\ error = Null
    /\ timers = {}
    /\ now = 0
    /\ inflight = {}
    /\ nextReq = 1
    /\ changes = 0
    /\ effectStart = 0
    /\ callsThisEffect = 0
    /\ applied = 0
    /\ latestOk = 0
    /\ lastEvent = [kind |-> "init", req |-> NoReq,
                    before |-> [quotes |-> << >>, loading |-> TRUE, error |-> Null]]

NextHook ==
    \/ \E list \in TickerLists : Mount(list)
    \/ StrictModeRemount
    \/ \E list \in TickerLists : ChangeTickers(list)
    \/ \E t \in timers : TimerFires(t)
    \/ Tick
    \/ Unmount
    \/ \E r \in inflight : \E up \in [RequestedSymbols(r.url) -> Outcomes] : Resolve(r, up)
    \/ \E r \in inflight : Reject(r)

\* ------------------------------------------------------------------------
\* Claims about the hook and the cards
\* ------------------------------------------------------------------------

CallKinds == {"mount", "remount", "change", "timer"}

\* C5: the response to a live-prices request has exactly one entry per
\* requested ticker, in request order; a failed ticker's entry carries an
\* error string instead of a price and the other entries keep theirs; the
\* grid shows an error card for exactly the entries that carry an error and
\* a price card for the others.
C5_OneEntryPerTickerAndCard ==
    /\ (lastEvent.kind = "resolved" /\ mounted = "yes") =>
          /\ Len(uiQuotes) = Len(lastEvent.req.tickers)
          /\ \A i \in 1..Len(uiQuotes) :
                /\ uiQuotes[i].symbol = lastEvent.req.tickers[i]
                /\ IsNull(uiQuotes[i].price) <=> ~IsNull(uiQuotes[i].error)
                /\ ~IsNull(uiQuotes[i].error) => TheVal(uiQuotes[i].error) \in FetchErrors
                /\ ~IsNull(uiQuotes[i].price) => TheVal(uiQuotes[i].price) \in LivePrices
    /\ (~loading /\ IsNull(error)) =>
          /\ Len(Main.grid) = Len(uiQuotes)
          /\ \A i \in 1..Len(uiQuotes) :
                /\ Main.grid[i].symbol = uiQuotes[i].symbol
                /\ Main.grid[i].kind = (IF IsNull(uiQuotes[i].error) THEN "price" ELSE "error")
                /\ Main.grid[i].text = (IF IsNull(uiQuotes[i].error)
                                        THEN uiQuotes[i].price ELSE uiQuotes[i].error)

\* The response to ["AAPL","ZZZZ"] with ZZZZ unknown upstream is on screen:
\* a price card for AAPL, an error card for ZZZZ.
C5_Witness ==
    /\ lastEvent.kind = "resolved"
    /\ mounted = "yes"
    /\ lastEvent.req.tickers = <<AAPL, ZZZZ>>
    /\ Len(Main.grid) = 2
    /\ Main.grid[1] = [kind |-> "price", symbol |-> AAPL, text |-> Val(190)]
    /\ Main.grid[2] = [kind |-> "error", symbol |-> ZZZZ, text |-> Val("NotFound")]

\* C8: a fetchQuotes call with tickers sets loading and clears error before
\* the request and ends with loading false; when the request fails, error
\* is the failure message and quotes is untouched; when it succeeds, quotes
\* is the response and error stays null. With no tickers no request is
\* sent, loading becomes false, quotes and error are unchanged.
C8_FetchQuotesOutcome ==
    /\ (lastEvent.kind \in CallKinds /\ lastEvent.req # NoReq) =>
          /\ loading = TRUE
          /\ error = Null
          /\ lastEvent.req \in inflight
          /\ lastEvent.req.id = nextReq - 1
          /\ uiQuotes = lastEvent.before.quotes
    /\ (lastEvent.kind \in CallKinds /\ lastEvent.req = NoReq) =>
          /\ loading = FALSE
          /\ uiQuotes = lastEvent.before.quotes
          /\ error = lastEvent.before.error
    /\ (lastEvent.kind = "rejected" /\ mounted = "yes") =>
          /\ loading = FALSE
          /\ error = Val(FailureMessage)
          /\ uiQuotes = lastEvent.before.quotes
    /\ (lastEvent.kind = "resolved" /\ mounted = "yes") =>
          /\ loading = FALSE
          /\ error = Null
          /\ Len(uiQuotes) = Len(lastEvent.req.tickers)

\* The timer that is due at this instant and has not fired yet.
DueNow == {t \in timers : t.due = now}

\* C9 (invariant part): while mounted exactly one interval timer is active,
\* created for the current ticker list; the effect has called fetchQuotes
\* once when it ran and once per 10 seconds since; after unmount no timer
\* is left; a request just sent is for the current ticker list.
C9_OneTimerPerEffect ==
    /\ Cardinality(timers) <= 1
    /\ mounted # "yes" => timers = {}
    /\ mounted = "yes" =>
          /\ \E t \in timers :
                /\ t.tickers = tickers
                /\ t.due = effectStart + callsThisEffect * pollingInterval
          /\ callsThisEffect =
                1 + ((now - effectStart) \div pollingInterval) - Cardinality(DueNow)
    /\ lastEvent.kind \in {"mount", "remount", "change"} => callsThisEffect = 1
    /\ (lastEvent.kind \in CallKinds /\ tickers # << >>) =>
          /\ lastEvent.req \in inflight
          /\ lastEvent.req.tickers = tickers

\* C9: the hook fetches once when it mounts and once every 10 seconds, at
\* most one polling timer is active, and once the hook unmounts or its
\* ticker list changes no request is started for the previous list.
C9_PollingTimer ==
    /\ []C9_OneTimerPerEffect
    /\ [][\A r \in inflight' \ inflight :
              /\ mounted' = "yes"
              /\ r.tickers = tickers'
              /\ Cardinality(inflight' \ inflight) = 1]_vars

\* The timer of the list set by a change has fired 10 seconds after it.
C9_Witness ==
    /\ lastEvent.kind = "timer"
    /\ changes = 1
    /\ callsThisEffect = 2
    /\ now = effectStart + pollingInterval

\* C10: with several requests outstanding, quotes after all responses have
\* arrived is the response of the most recently issued request, and a
\* response to a request for a previous ticker list, or arriving after
\* unmount, overwrites none of quotes, loading and error.
C10_LatestRequestWins ==
    /\ (inflight = {} /\ mounted = "yes" /\ latestOk > 0) => applied = latestOk
    /\ (/\ lastEvent.kind \in {"resolved", "rejected"}
        /\ (mounted = "gone" \/ lastEvent.req.tickers # tickers))
          => Snapshot = lastEvent.before

\* ========================================================================
\* Refresh Scheduler (design document, sections 4.3 and 5)
\* ========================================================================

\* Refresh triggers per symbol set in one behaviour
MaxTriggers == 3

\* The managed symbol sets.
SymbolSets == {"watchlist", "portfolio"}
FetchResults == {"ok", "RateLimited"}

\* A trigger that always calls the Upstream Fetcher.
TriggerWithoutCollapsing(set) ==
    /\ triggers[set] < MaxTriggers
    /\ triggers' = [triggers EXCEPT ![set] = @ + 1]
    /\ schedState[set] # "Backoff"
    /\ schedState' = [schedState EXCEPT ![set] = "Fetching"]
    /\ upstreamInFlight' = [upstreamInFlight EXCEPT ![set] = @ + 1]
    /\ cycleCalls' = [cycleCalls EXCEPT ![set] = @ + 1]
    /\ UNCHANGED awaiting
    /\ UNCHANGED <<dbVars, hookVars, hubVars>>

\* A refresh trigger for a symbol set. From Idle it starts the one fetch of
\* the cycle; while Fetching or Committing it awaits the in-flight result;
\* in Backoff it waits for the next tick. It never starts a second call.
Trigger(set) ==
    /\ triggers[set] < MaxTriggers
    /\ triggers' = [triggers EXCEPT ![set] = @ + 1]
    /\ IF schedState[set] = "Idle"
       THEN /\ schedState' = [schedState EXCEPT ![set] = "Fetching"]
            /\ upstreamInFlight' = [upstreamInFlight EXCEPT ![set] = @ + 1]
            /\ cycleCalls' = [cycleCalls EXCEPT ![set] = 1]
            /\ UNCHANGED awaiting
       ELSE /\ awaiting' = [awaiting EXCEPT ![set] = @ + 1]
            /\ UNCHANGED <<schedState, upstreamInFlight, cycleCalls>>
    /\ UNCHANGED <<dbVars, hookVars, hubVars>>

\* The Upstream Fetcher returns: Fetching -> Committing, or -> Backoff on
\* RateLimited.
FetchReturns(set, result) ==
    /\ schedState[set] = "Fetching"
    /\ upstreamInFlight' = [upstreamInFlight EXCEPT ![set] = @ - 1]
    /\ schedState' = [schedState EXCEPT
                        ![set] = IF result = "RateLimited" THEN "Backoff" ELSE "Committing"]
    /\ UNCHANGED <<awaiting, cycleCalls, triggers>>
    /\ UNCHANGED <<dbVars, hookVars, hubVars>>

\* The tick result is committed and published: Committing -> Idle; the
\* triggers that awaited it get the result.
CommitDone(set) ==
    /\ schedState[set] = "Committing"
    /\ schedState' = [schedState EXCEPT ![set] = "Idle"]
    /\ awaiting' = [awaiting EXCEPT ![set] = 0]
    /\ cycleCalls' = [cycleCalls EXCEPT ![set] = 0]
    /\ UNCHANGED <<upstreamInFlight, triggers>>
    /\ UNCHANGED <<dbVars, hookVars, hubVars>>

\* The backoff wait is over: Backoff -> Idle.
BackoffOver(set) ==
    /\ schedState[set] = "Backoff"
    /\ schedState' = [schedState EXCEPT ![set] = "Idle"]
    /\ awaiting' = [awaiting EXCEPT ![set] = 0]
    /\ cycleCalls' = [cycleCalls EXCEPT ![set] = 0]
    /\ UNCHANGED <<upstreamInFlight, triggers>>
    /\ UNCHANGED <<dbVars, hookVars, hubVars>>

InitSched ==
    /\ schedState = [set \in SymbolSets |-> "Idle"]
    /\ awaiting = [set \in SymbolSets |-> 0]
    /\ upstreamInFlight = [set \in SymbolSets |-> 0]
    /\ cycleCalls = [set \in SymbolSets |-> 0]
    /\ triggers = [set \in SymbolSets |-> 0]

NextSched ==
    \/ \E set \in SymbolSets : Trigger(set)
    \/ \E set \in SymbolSets, result \in FetchResults : FetchReturns(set, result)
    \/ \E set \in SymbolSets : CommitDone(set)
    \/ \E set \in SymbolSets : BackoffOver(set)

\* C6: at most one upstream fetch per symbol set is in flight; the triggers
\* that arrive while a set is Fetching or Committing add no call to the
\* Upstream Fetcher (exactly one call per cycle) and await the result.
C6_AtMostOneFetchInFlight ==
    \A set \in SymbolSets :
        /\ upstreamInFlight[set] <= 1
        /\ upstreamInFlight[set] = 1 <=> schedState[set] = "Fetching"
        /\ schedState[set] \in {"Fetching", "Committing"} => cycleCalls[set] = 1
        /\ schedState[set] = "Idle" => awaiting[set] = 0

\* Two triggers arrived while the fetch of a set was in flight.
C6_Witness ==
    \E set \in SymbolSets :
        /\ schedState[set] = "Fetching"
        /\ awaiting[set] = 2
        /\ cycleCalls[set] = 1

\* ========================================================================
\* Broadcast Hub (design document, section 4.4) and socket.onmessage
\* ========================================================================

\* Tick results published in one behaviour
MaxPublishes == 4
\* Capacity of a subscriber's queue
QueueCap == 2

\* The symbol the subscriber watches.
Watched == "AAPL"

\* JSON text of a tick event, as the sequence of its tokens. tick is the
\* number of the tick result it came with.
JSONstringify(ev) ==
    <<"{", "symbol", ev.symbol, "tick", ev.tick, "timestamp", ev.timestamp, "}">>

\* JSON.parse(event.data)
JSONparse(text) ==
    [symbol |-> text[3], tick |-> text[5], timestamp |-> text[7]]

\* subscribe(symbols): the client connects; the scope is set at connect time.
\* new WebSocket('ws://localhost:8000/ws/stocks/')
Subscribe ==
    /\ subscribed = "no"
    /\ subscribed' = "open"
    /\ UNCHANGED <<tickNo, published, hubCache, channel, socketLog>>
    /\ UNCHANGED <<dbVars, hookVars, schedVars>>

\* publish(tickResult), called by the Scheduler with the sample of the
\* watched symbol and its upstream timestamp ts: the cache is updated and
\* the event is put on the subscriber's queue without blocking. A full
\* queue drops its oldest event or closes the subscriber.
Publish(ts, dropOldest) ==
    /\ tickNo < MaxPublishes
    /\ tickNo' = tickNo + 1
    /\ LET ev == [symbol |-> Watched, tick |-> tickNo + 1, timestamp |-> ts]
       IN  /\ published' = Append(published, ev)
           /\ hubCache' = Val(ev)
           /\ IF subscribed # "open"
              THEN UNCHANGED <<channel, subscribed>>
              ELSE IF Len(channel) < QueueCap
              THEN /\ channel' = Append(channel, JSONstringify(ev))
                   /\ UNCHANGED subscribed
              ELSE IF dropOldest
              THEN /\ channel' = Append(Tail(channel), JSONstringify(ev))
                   /\ UNCHANGED subscribed
              ELSE /\ channel' = << >>
                   /\ subscribed' = "closed"
    /\ UNCHANGED socketLog
    /\ UNCHANGED <<dbVars, hookVars, schedVars>>

\* A handler that records the newest message first.
onmessageNewestFirst ==
    /\ subscribed = "open"
    /\ Len(channel) > 0
    /\ socketLog' = <<JSONparse(Head(channel))>> \o socketLog
    /\ channel' = Tail(channel)
    /\ UNCHANGED <<tickNo, published, hubCache, subscribed>>
    /\ UNCHANGED <<dbVars, hookVars, schedVars>>

\* socket.onmessage: the next message of the connection is parsed and logged.
onmessage ==
    /\ subscribed = "open"
    /\ Len(channel) > 0
    /\ socketLog' = Append(socketLog, JSONparse(Head(channel)))
    /\ channel' = Tail(channel)
    /\ UNCHANGED <<tickNo, published, hubCache, subscribed>>
    /\ UNCHANGED <<dbVars, hookVars, schedVars>>

\* The client disconnects: its subscription and buffer are released.
Disconnect ==
    /\ subscribed = "open"
    /\ subscribed' = "closed"
    /\ channel' = << >>
    /\ UNCHANGED <<tickNo, published, hubCache, socketLog>>
    /\ UNCHANGED <<dbVars, hookVars, schedVars>>

InitHub ==
    /\ tickNo = 0
    /\ published = << >>
    /\ hubCache = Null
    /\ subscribed = "no"
    /\ channel = << >>
    /\ socketLog = << >>

NextHub ==
    \/ Subscribe
    \/ \E ts \in Timestamps, dropOldest \in BOOLEAN : Publish(ts, dropOldest)
    \/ onmessage
    \/ Disconnect

Init == InitDB /\ InitHook /\ InitSched /\ InitHub

SpecDB == Init /\ [][NextDB]_vars
SpecHook == Init /\ [][NextHook]_vars
SpecSched == Init /\ [][NextSched]_vars
SpecHub == Init /\ [][NextHub]_vars

====
